---- MODULE Spec2Model ----
(***************************************************************************)
(* Model of src/app.py: the KSEI ownership "switching" dashboard.          *)
(*                                                                         *)
(* The data frame df is a sequence of snapshot rows, one per (Code, Last   *)
(* Trading Date), carrying the four aggregates load_data derives           *)
(* (Local_Institusi, Foreign_Institusi, Local_Retail, Foreign_Retail).     *)
(* Security codes are natural numbers standing for the codes in ascending  *)
(* lexicographic order (1 = "A", 2 = "B", ...).  Dates are day numbers of  *)
(* the year 2024 (31 = 2024-01-31, 60 = 2024-02-29, 91 = 2024-03-31,       *)
(* 121 = 2024-04-30), so that pd.DateOffset(days = n) is subtraction of n. *)
(* The data set holds at most one row per (Code, Date), as section 3 of    *)
(* the specification requires of the snapshot store.                       *)
(***************************************************************************)
EXTENDS Integers, Sequences, FiniteSets, TLC

VARIABLES df, period_days, period, final_results, screen, detail

vars == <<df, period_days, period, final_results, screen, detail>>

\* ------------------------------------------------------------------ bounds

\* Number of security codes of the data sets that are loaded row by row.
NumCodes == 2
\* Largest number of rows of a data set that is loaded row by row.
MaxRows == 4
\* Largest number of securities of the wide data sets (more than the
\* screener's 50 displayed rows).
MaxWide == 52
\* Largest foreign-retail holding of the worked example's securities.
MaxForeignRetail == 6
\* Largest number of lowest-ranked securities of a wide data set that tie.
MaxPlateau == 3

\* ------------------------------------------------------- program constants

\* final_results.head(50)
TopN == 50

\* period_options of tab_screener: label -> period_days.
period_options ==
  [label \in {"1 Bulan Terakhir", "3 Bulan Terakhir", "6 Bulan Terakhir"} |->
     CASE label = "1 Bulan Terakhir" -> 30
       [] label = "3 Bulan Terakhir" -> 90
       [] OTHER -> 180]

\* The values the call sites pass as period_days.
PeriodDays == {period_options[l] : l \in DOMAIN period_options}

\* --------------------------------------------------------------- inputs

Codes == 1..NumCodes

\* Month-end snapshot dates of 2024 as day numbers: 01-31, 02-29, 03-31, 04-30.
Dates == {31, 60, 91, 121}

\* The holdings a loaded row may carry.
ShareRows ==
  { [Local_Institusi |-> 0, Foreign_Institusi |-> 0, Local_Retail |-> 0, Foreign_Retail |-> 0],
    [Local_Institusi |-> 1, Foreign_Institusi |-> 2, Local_Retail |-> 4, Foreign_Retail |-> 8] }

MakeRow(code, date, v) ==
  [Code |-> code, Date |-> date,
   Local_Institusi |-> v.Local_Institusi, Foreign_Institusi |-> v.Foreign_Institusi,
   Local_Retail |-> v.Local_Retail, Foreign_Retail |-> v.Foreign_Retail]

\* ------------------------------------------------------------- helpers

Range(s) == {s[i] : i \in DOMAIN s}

Min2(a, b) == IF a <= b THEN a ELSE b

MaxOf(S) == CHOOSE x \in S : \A y \in S : y <= x

MinOf(S) == CHOOSE x \in S : \A y \in S : x <= y

\* sorted(...) of a set of dates: ascending sequence.
RECURSIVE sorted(_)
sorted(S) ==
  IF S = {} THEN <<>>
  ELSE LET m == MinOf(S) IN <<m>> \o sorted(S \ {m})

\* s[-1]
Last(s) == s[Len(s)]

\* ----------------------------------------------------------- load_data

RowBefore(a, b) ==
  \/ a.Code < b.Code
  \/ a.Code = b.Code /\ a.Date < b.Date

\* df.sort_values(by=['Code', 'Last Trading Date']) of a set of rows with
\* pairwise distinct (Code, Date).
RECURSIVE sort_by_code_date(_)
sort_by_code_date(S) ==
  IF S = {} THEN <<>>
  ELSE LET m == CHOOSE r \in S : \A o \in S \ {r} : RowBefore(r, o)
       IN <<m>> \o sort_by_code_date(S \ {m})

\* ------------------------------------------- calculate_switching_score

\* The frame pd.DataFrame() returns: no columns, no rows.
EmptyDataFrame == [columns |-> <<>>, rows |-> <<>>]

\* The columns of final_df.
FinalColumns ==
  <<"Saham", "Nama Perusahaan", "Switching Score", "Akumulasi Institusi", "Distribusi Ritel">>

\* sorted(data['Last Trading Date'].unique())
unique_dates(data) == sorted({data[i].Date : i \in DOMAIN data})

\* Mutant: the offset is dropped, the target is the end date itself.
start_date_target_no_offset(end_date, days) == end_date

\* end_date - pd.DateOffset(days=period_days)
start_date_target(end_date, days) == end_date - days

\* Mutant: d < start_date_target.
available_past_dates_strict(dates, target) == SelectSeq(dates, LAMBDA d : d < target)

\* [d for d in unique_dates if d <= start_date_target]
available_past_dates(dates, target) == SelectSeq(dates, LAMBDA d : d <= target)

\* The period the function resolves: its locals end_date and start_date, or
\* resolved = FALSE when it returns early.
resolve_period(data, days) ==
  LET unresolved == [resolved |-> FALSE, start_date |-> 0, end_date |-> 0]
      ud == unique_dates(data)
  IN IF data = <<>> THEN unresolved
     ELSE IF Len(ud) < 2 THEN unresolved
     ELSE LET end_date == Last(ud)
              past == available_past_dates(ud, start_date_target(end_date, days))
          IN IF past = <<>> THEN unresolved
             ELSE [resolved |-> TRUE, start_date |-> Last(past), end_date |-> end_date]

\* data[data['Last Trading Date'] == date].set_index('Code')
rows_on(data, date) == SelectSeq(data, LAMBDA r : r.Date = date)

\* The row of an index that has no match in the right frame: every column NaN.
NaNRow ==
  [Code |-> 0, Date |-> 0, Local_Institusi |-> 0, Foreign_Institusi |-> 0,
   Local_Retail |-> 0, Foreign_Retail |-> 0]

\* Mutant: a security without a row in the right frame is joined with its own
\* left row (a period of length zero).
join_self(end_data_df, start_data_df) ==
  [i \in 1..Len(end_data_df) |->
     LET e == end_data_df[i]
         m == SelectSeq(start_data_df, LAMBDA s : s.Code = e.Code)
     IN [Code |-> e.Code, end |-> e,
         isna_start |-> FALSE,
         start |-> IF m = <<>> THEN e ELSE m[1]]]

\* end_data_df.join(start_data_df, lsuffix='_end', rsuffix='_start'): a left
\* join on the index Code, in the order of the left frame.
join(end_data_df, start_data_df) ==
  [i \in 1..Len(end_data_df) |->
     LET e == end_data_df[i]
         m == SelectSeq(start_data_df, LAMBDA s : s.Code = e.Code)
     IN [Code |-> e.Code, end |-> e,
         isna_start |-> (m = <<>>),
         start |-> IF m = <<>> THEN NaNRow ELSE m[1]]]

\* Mutant: fillna(0) in place of dropna, a missing start row counts as zero.
dropna_fill_zero(merged_df) ==
  [i \in 1..Len(merged_df) |-> [merged_df[i] EXCEPT !.isna_start = FALSE]]

\* merged_df.dropna(subset=[the four *_start columns])
dropna(merged_df) == SelectSeq(merged_df, LAMBDA m : ~m.isna_start)

delta_inst_local(m) == m.end.Local_Institusi - m.start.Local_Institusi
delta_inst_foreign(m) == m.end.Foreign_Institusi - m.start.Foreign_Institusi
delta_retail_local(m) == m.end.Local_Retail - m.start.Local_Retail
delta_retail_foreign(m) == m.end.Foreign_Retail - m.start.Foreign_Retail

total_inst_change(m) == delta_inst_local(m) + delta_inst_foreign(m)

\* Mutant: the foreign retail delta is left out.
total_retail_change_local_only(m) == delta_retail_local(m)

total_retail_change(m) == delta_retail_local(m) + delta_retail_foreign(m)

switching_score(m) == total_inst_change(m) - total_retail_change(m)

\* One row of final_df.
final_row(m) ==
  [Saham |-> m.Code,
   Nama_Perusahaan |-> m.Code,
   Switching_Score |-> switching_score(m),
   Akumulasi_Institusi |-> total_inst_change(m),
   Distribusi_Ritel |-> total_retail_change(m)]

\* Mutant: a frame built from no rows has no columns either.
final_df_columns_from_rows(merged_df) ==
  IF merged_df = <<>> THEN EmptyDataFrame
  ELSE [columns |-> FinalColumns,
        rows |-> [i \in 1..Len(merged_df) |-> final_row(merged_df[i])]]

\* final_df = pd.DataFrame({'Saham': ..., ..., 'Distribusi Ritel': ...})
final_df(merged_df) ==
  [columns |-> FinalColumns,
   rows |-> [i \in 1..Len(merged_df) |-> final_row(merged_df[i])]]

\* The orders final_df.sort_values(by='Switching Score', ascending=False) may
\* return for a set of rows: the sort is of kind 'quicksort', which is not
\* stable, so rows of equal score come in any order.
RECURSIVE sort_orders(_)
sort_orders(S) ==
  IF S = {} THEN {<<>>}
  ELSE LET top == MaxOf({r.Switching_Score : r \in S})
       IN UNION { { <<r>> \o t : t \in sort_orders(S \ {r}) } :
                  r \in {x \in S : x.Switching_Score = top} }

\* Mutant: ascending=True, and rows of equal score in any order.
RECURSIVE sort_orders_ascending(_)
sort_orders_ascending(S) ==
  IF S = {} THEN {<<>>}
  ELSE LET low == MinOf({r.Switching_Score : r \in S})
       IN UNION { { <<r>> \o t : t \in sort_orders_ascending(S \ {r}) } :
                  r \in {x \in S : x.Switching_Score = low} }

sort_values_ascending(frame) ==
  { [columns |-> frame.columns, rows |-> s] : s \in sort_orders_ascending(Range(frame.rows)) }

\* final_df.sort_values(by='Switching Score', ascending=False): the frames it
\* may return.
sort_values(frame) ==
  { [columns |-> frame.columns, rows |-> s] : s \in sort_orders(Range(frame.rows)) }

\* The frames calculate_switching_score(data, days) may return.
calculate_switching_score(data, days) ==
  LET p == resolve_period(data, days)
  IN IF ~p.resolved THEN {EmptyDataFrame}
     ELSE LET end_data_df == rows_on(data, p.end_date)
              start_data_df == rows_on(data, p.start_date)
              merged_df == dropna(join(end_data_df, start_data_df))
          IN sort_values(final_df(merged_df))

\* DataFrame.empty
empty(frame) == Len(frame.rows) = 0 \/ Len(frame.columns) = 0

\* DataFrame.head(n)
head(rows, n) == SubSeq(rows, 1, Min2(n, Len(rows)))

\* ------------------------------------------------------------------ state

NotCalled == [called |-> FALSE, columns |-> <<>>, rows |-> <<>>]

NoPeriod == [resolved |-> FALSE, start_date |-> 0, end_date |-> 0]

BlankScreen == [status |-> "blank", top_results |-> <<>>]

BlankDetail == [status |-> "blank", selected_stock |-> 0, start_date |-> 0, end_date |-> 0]

Init ==
  /\ df = <<>>
  /\ period_days = 0
  /\ period = NoPeriod
  /\ final_results = NotCalled
  /\ screen = BlankScreen
  /\ detail = BlankDetail

\* load_data after the cache expired and the CSV gained the snapshot row
\* (code, date, v): the frame is re-read, sorted by Code and date, and the
\* script is run again from the top.
LoadData(code, date, v) ==
  /\ Len(df) < MaxRows
  /\ \A i \in DOMAIN df : ~(df[i].Code = code /\ df[i].Date = date)
  /\ df' = sort_by_code_date(Range(df) \cup {MakeRow(code, date, v)})
  /\ period_days' = 0
  /\ period' = NoPeriod
  /\ final_results' = NotCalled
  /\ screen' = BlankScreen
  /\ detail' = BlankDetail

\* A call calculate_switching_score(df, days).
ScoreCall(days) ==
  /\ period_days' = days
  /\ period' = resolve_period(df, days)
  /\ \E f \in calculate_switching_score(df, days) :
       final_results' = [called |-> TRUE, columns |-> f.columns, rows |-> f.rows]
  /\ UNCHANGED <<df, screen, detail>>

\* The block "with tab_screener:".
Screener(label) ==
  /\ screen.status = "blank"
  /\ IF df # <<>>
     THEN LET days == period_options[label]
          IN /\ period_days' = days
             /\ period' = resolve_period(df, days)
             /\ \E f \in calculate_switching_score(df, days) :
                  /\ final_results' = [called |-> TRUE, columns |-> f.columns, rows |-> f.rows]
                  /\ screen' = IF ~empty(f)
                               THEN [status |-> "success", top_results |-> head(f.rows, TopN)]
                               ELSE [status |-> "warning_tidak_cukup_data", top_results |-> <<>>]
     ELSE /\ screen' = [status |-> "warning_gagal_memuat_data", top_results |-> <<>>]
          /\ UNCHANGED <<period_days, period, final_results>>
  /\ UNCHANGED <<df, detail>>

\* period_options_detail of tab_detail: label -> days.
period_options_detail ==
  [label \in {"3 Bulan", "6 Bulan", "1 Tahun", "Semua Data"} |->
     CASE label = "3 Bulan" -> 90
       [] label = "6 Bulan" -> 180
       [] label = "1 Tahun" -> 365
       [] OTHER -> 9999]

\* sorted(df['Code'].unique())
all_stocks(data) == {data[i].Code : i \in DOMAIN data}

\* The block "with tab_detail:", which the script runs after the screener's.
\* With a loaded frame it selects a stock and a period label and then reads
\* the name selected_period_detail, which is bound nowhere (the label is held
\* by selected_period_detail_label): the block ends in a NameError before any
\* row is selected, whichever label is chosen.
Detail(stock) ==
  /\ screen.status # "blank"
  /\ detail.status = "blank"
  /\ IF df # <<>>
     THEN /\ stock \in all_stocks(df)
          /\ detail' = [BlankDetail EXCEPT !.status = "NameError", !.selected_stock = stock]
     ELSE /\ stock = 0
          /\ detail' = [BlankDetail EXCEPT !.status = "warning_gagal_memuat_data"]
  /\ UNCHANGED <<df, period_days, period, final_results, screen>>

Load == \E code \in Codes, date \in Dates, v \in ShareRows : LoadData(code, date, v)

Call == \E days \in PeriodDays : ScoreCall(days)

RunScreener == \E label \in DOMAIN period_options : Screener(label)

RunDetail == \E stock \in all_stocks(df) \cup {0} : Detail(stock)

\* The function applied to every loaded frame.
NextFn == Load \/ Call

SpecFn == Init /\ [][NextFn]_vars

\* The script: load, screener block, detail block.
Next == Load \/ RunScreener \/ RunDetail

Spec == Init /\ [][Next]_vars

\* ------------------------------------------------- the worked example

\* The data set of the worked example: securities A (1) and B (2) on
\* 2024-01-31 (31) and 2024-02-29 (60); the foreign retail holdings, which the
\* example leaves open, are fa and fb on both dates.
ExampleData(fa, fb) ==
  sort_by_code_date({
    [Code |-> 1, Date |-> 31, Local_Institusi |-> 100, Foreign_Institusi |-> 50,
     Local_Retail |-> 500, Foreign_Retail |-> fa],
    [Code |-> 1, Date |-> 60, Local_Institusi |-> 150, Foreign_Institusi |-> 60,
     Local_Retail |-> 460, Foreign_Retail |-> fa],
    [Code |-> 2, Date |-> 31, Local_Institusi |-> 200, Foreign_Institusi |-> 300,
     Local_Retail |-> 100, Foreign_Retail |-> fb],
    [Code |-> 2, Date |-> 60, Local_Institusi |-> 180, Foreign_Institusi |-> 300,
     Local_Retail |-> 120, Foreign_Retail |-> fb] })

InitExample ==
  /\ df \in {ExampleData(fa, fb) : fa \in 0..MaxForeignRetail, fb \in 0..MaxForeignRetail}
  /\ period_days = 0
  /\ period = NoPeriod
  /\ final_results = NotCalled
  /\ screen = BlankScreen
  /\ detail = BlankDetail

NextExample == RunScreener \/ RunDetail

SpecExample == InitExample /\ [][NextExample]_vars

\* ------------------------------------------------------ wide data sets

\* A data set of n securities with rows on 2024-03-31 (91) and 2024-04-30
\* (121): security c holds nothing on the first date and slope * max(c, plateau)
\* local institutional shares on the second, so that the plateau securities
\* 1..plateau tie on the lowest score.
WideData(n, slope, plateau) ==
  [i \in 1..(2 * n) |->
     LET c == (i + 1) \div 2
     IN IF i % 2 = 1
        THEN [Code |-> c, Date |-> 91, Local_Institusi |-> 0, Foreign_Institusi |-> 7,
              Local_Retail |-> 3, Foreign_Retail |-> 0]
        ELSE [Code |-> c, Date |-> 121,
              Local_Institusi |-> slope * (IF c < plateau THEN plateau ELSE c),
              Foreign_Institusi |-> 7, Local_Retail |-> 3, Foreign_Retail |-> 0]]

InitWide ==
  /\ df \in {WideData(n, slope, plateau) :
               n \in 1..MaxWide, slope \in 1..2, plateau \in 1..MaxPlateau}
  /\ period_days = 0
  /\ period = NoPeriod
  /\ final_results = NotCalled
  /\ screen = BlankScreen
  /\ detail = BlankDetail

NextWide == RunScreener

SpecWide == InitWide /\ [][NextWide]_vars

\* ------------------------------------------------------------- claims
\* What the claims speak of, recomputed from the rows of df alone.

SnapshotDates == {df[i].Date : i \in DOMAIN df}

HasSnapshot(code, date) == \E i \in DOMAIN df : df[i].Code = code /\ df[i].Date = date

SnapshotOf(code, date) == CHOOSE r \in Range(df) : r.Code = code /\ r.Date = date

SnapshotCount(code) == Cardinality({i \in DOMAIN df : df[i].Code = code})

\* The latest snapshot date.
ExpectedEnd == CHOOSE d \in SnapshotDates : \A e \in SnapshotDates : e <= d

\* The dates at or before (latest date - period_days).
PastDates == {d \in SnapshotDates : d <= ExpectedEnd - period_days}

\* No period can be resolved for the last call's period_days.
InsufficientHistory ==
  \/ df = <<>>
  \/ Cardinality(SnapshotDates) < 2
  \/ PastDates = {}

\* The latest of them.
ExpectedStart == CHOOSE d \in PastDates : \A e \in PastDates : e <= d

Returned == [columns |-> final_results.columns, rows |-> final_results.rows]

ScoredCodes == {final_results.rows[i].Saham : i \in DOMAIN final_results.rows}

\* C1: every row of the result carries the raw deltas between the security's
\* row at the resolved end date and its row at the resolved start date:
\* Akumulasi Institusi = d Local_Institusi + d Foreign_Institusi, Distribusi
\* Ritel = d Local_Retail + d Foreign_Retail, Switching Score = their difference.
C1_ScoreIsRawDelta ==
  final_results.called =>
    \A i \in DOMAIN final_results.rows :
      LET r == final_results.rows[i]
      IN /\ ~InsufficientHistory
         /\ HasSnapshot(r.Saham, ExpectedStart)
         /\ HasSnapshot(r.Saham, ExpectedEnd)
         /\ LET s == SnapshotOf(r.Saham, ExpectedStart)
                e == SnapshotOf(r.Saham, ExpectedEnd)
                inst == (e.Local_Institusi - s.Local_Institusi)
                        + (e.Foreign_Institusi - s.Foreign_Institusi)
                retail == (e.Local_Retail - s.Local_Retail)
                          + (e.Foreign_Retail - s.Foreign_Retail)
            IN /\ r.Akumulasi_Institusi = inst
               /\ r.Distribusi_Ritel = retail
               /\ r.Switching_Score = inst - retail

\* A call that scored one security up and another down, each with institutional
\* and retail holdings that moved.
C1_Witness ==
  /\ final_results.called
  /\ \E i, j \in DOMAIN final_results.rows :
       /\ final_results.rows[i].Switching_Score > 0
       /\ final_results.rows[j].Switching_Score < 0
       /\ final_results.rows[i].Akumulasi_Institusi # 0
       /\ final_results.rows[i].Distribusi_Ritel # 0

\* C2: a resolved period ends on the latest snapshot date and starts on the
\* latest snapshot date at or before (end - period_days): the start is a date of
\* the data set, no date lies after it and at or before the target, and
\* start <= end.
C2_PeriodIsNearestPast ==
  (final_results.called /\ period.resolved) =>
    /\ Cardinality(SnapshotDates) >= 2
    /\ period.end_date \in SnapshotDates
    /\ \A d \in SnapshotDates : d <= period.end_date
    /\ period.start_date \in SnapshotDates
    /\ period.start_date <= period.end_date - period_days
    /\ ~ \E d \in SnapshotDates :
           period.start_date < d /\ d <= period.end_date - period_days
    /\ period.start_date <= period.end_date

\* A period whose start falls exactly on the target, with an earlier snapshot
\* date before it.
C2_Witness ==
  /\ final_results.called
  /\ period.resolved
  /\ period.start_date = period.end_date - period_days
  /\ \E d \in SnapshotDates : d < period.start_date

\* C3: the securities of the result are exactly those with a row at the
\* resolved start date and a row at the resolved end date, each once.
C3_ResultIsInnerJoin ==
  (final_results.called /\ ~InsufficientHistory) =>
    /\ ScoredCodes = {c \in all_stocks(df) :
                        HasSnapshot(c, ExpectedStart) /\ HasSnapshot(c, ExpectedEnd)}
    /\ Len(final_results.rows) = Cardinality(ScoredCodes)

\* A call that scored a security while another one, with a row at the end date
\* and an earlier row but none at the start date, was left out.
C3_Witness ==
  /\ final_results.called
  /\ ~InsufficientHistory
  /\ final_results.rows # <<>>
  /\ \E c \in all_stocks(df) :
       /\ HasSnapshot(c, ExpectedEnd)
       /\ ~HasSnapshot(c, ExpectedStart)
       /\ \E d \in SnapshotDates : d < ExpectedStart /\ HasSnapshot(c, d)
       /\ c \notin ScoredCodes

\* C4: on an empty data set, on fewer than two distinct dates and when no date
\* lies at or before (latest date - period_days), the call returns and its
\* result has no rows: no security is scored.
C4_InsufficientHistoryIsEmpty ==
  (final_results.called /\ InsufficientHistory) =>
    /\ final_results.rows = <<>>
    /\ ~period.resolved

\* A call on two securities that both have rows on the same two dates, which
\* lie closer together than period_days.
C4_Witness ==
  /\ final_results.called
  /\ Cardinality(SnapshotDates) = 2
  /\ PastDates = {}
  /\ Cardinality(all_stocks(df)) = 2
  /\ \A c \in all_stocks(df) : SnapshotCount(c) = 2
  /\ final_results.rows = <<>>

\* C5: a security with exactly one row in the data set is in no result.
C5_SingleSnapshotExcluded ==
  final_results.called =>
    \A c \in all_stocks(df) : SnapshotCount(c) = 1 => c \notin ScoredCodes

\* A call that scored a security while one single-row security sits on the end
\* date, with both period dates present in the data set.
C5_Witness ==
  /\ final_results.called
  /\ final_results.rows # <<>>
  /\ \E c \in all_stocks(df) :
       /\ SnapshotCount(c) = 1
       /\ HasSnapshot(c, period.end_date)
       /\ c \notin ScoredCodes

\* C6: on the worked example the one-month lookback (period_days = 30) resolves
\* 2024-01-31 to 2024-02-29 and returns A with Switching Score 100 above B with
\* Switching Score -40.
C6_WorkedExample ==
  (final_results.called /\ period_days = 30) =>
    /\ period = [resolved |-> TRUE, start_date |-> 31, end_date |-> 60]
    /\ Len(final_results.rows) = 2
    /\ final_results.rows[1].Saham = 1
    /\ final_results.rows[1].Switching_Score = 100
    /\ final_results.rows[2].Saham = 2
    /\ final_results.rows[2].Switching_Score = -40

\* C7: the rows of the result are in non-increasing order of Switching Score,
\* and the screener shows the first min(50, number of rows) of them: never more
\* than 50, and none with a lower score than a scored security it leaves out.
C7_SortedAndTruncated ==
  final_results.called =>
    /\ \A i, j \in DOMAIN final_results.rows :
         i < j => final_results.rows[i].Switching_Score >= final_results.rows[j].Switching_Score
    /\ screen.status = "success" =>
         /\ Len(screen.top_results) = Min2(TopN, Len(final_results.rows))
         /\ Len(screen.top_results) <= TopN
         /\ \A i \in DOMAIN screen.top_results : screen.top_results[i] = final_results.rows[i]
         /\ \A i \in DOMAIN screen.top_results :
              \A j \in (DOMAIN final_results.rows) \ (DOMAIN screen.top_results) :
                screen.top_results[i].Switching_Score >= final_results.rows[j].Switching_Score

\* A screener run over more than 50 scored securities with distinct scores at
\* the top and a tie across the cut between row 50 and row 51.
C7_Witness ==
  /\ screen.status = "success"
  /\ Len(final_results.rows) > TopN
  /\ Len(screen.top_results) = TopN
  /\ final_results.rows[1].Switching_Score > final_results.rows[2].Switching_Score
  /\ final_results.rows[TopN].Switching_Score = final_results.rows[TopN + 1].Switching_Score

\* C8: securities of equal Switching Score appear in ascending order of code.
C8_TiesAscendingByCode ==
  final_results.called =>
    \A i, j \in DOMAIN final_results.rows :
      (i < j /\ final_results.rows[i].Switching_Score = final_results.rows[j].Switching_Score)
        => final_results.rows[i].Saham < final_results.rows[j].Saham

\* C9: the detail block, for the selected security and whichever lookback is
\* selected, ends on the security's latest snapshot and starts on its latest
\* snapshot at or before (latest date - lookback); without such a snapshot it
\* reports insufficient history.
C9_DetailNearestPast ==
  (detail.status # "blank" /\ df # <<>>) =>
    \A label \in DOMAIN period_options_detail :
      LET own == {df[i].Date : i \in {k \in DOMAIN df : df[k].Code = detail.selected_stock}}
          latest == MaxOf(own)
          past == {d \in own : d <= latest - period_options_detail[label]}
      IN IF past = {}
         THEN detail.status = "warning_tidak_cukup_data_historis"
         ELSE /\ detail.status = "ringkasan"
              /\ detail.end_date = latest
              /\ detail.start_date = MaxOf(past)

\* C10: the returned frame tells insufficient history from a resolved period in
\* which no security qualifies: the call returns the frame without columns
\* exactly when no period can be resolved.
C10_EmptyOutcomesDiffer ==
  final_results.called => (InsufficientHistory <=> Returned = EmptyDataFrame)

\* A screener run with a resolved period and no security on both of its dates:
\* the frame has its columns and no rows, under the same warning as
\* insufficient history.
C10_Witness ==
  /\ final_results.called
  /\ ~InsufficientHistory
  /\ period.resolved
  /\ final_results.rows = <<>>
  /\ final_results.columns = FinalColumns
  /\ screen.status = "warning_tidak_cukup_data"

====
